---------------------------- MODULE Spec2Model ----------------------------
(***************************************************************************)
(* A model of uz-wiki/src/scraper.py: the text cleaner, the two flat       *)
(* crawl drivers (scrape_from_title_files, parallel_scrape_from_files)     *)
(* with their resume lookup, and the recursive category crawl.             *)
(*                                                                         *)
(* A text is a sequence of one-character strings.  A title is a natural    *)
(* number; the order of the numbers stands for the code-point order of     *)
(* the title strings (list.sort()).  An output file <prefix>_<n>.csv is    *)
(* named by its number n; the directory listing sorts the names as         *)
(* strings, which is modelled on the decimal digits of n.                  *)
(***************************************************************************)
EXTENDS Integers, Sequences, FiniteSets, TLC

(***************************************************************************)
(* Bounds of the model.                                                    *)
(***************************************************************************)
NumTitles == 2
MaxBatch == 2
MaxWorkers == 2
MaxRuns == 2
ManyTitles == 10
MaxPartLen == 4
MaxPartBatch == 3
NumCats == 2
MaxDepth == 2
ArticlesPerCat == 1
LowMaxArticles == 2

(***************************************************************************)
(* Program constants.                                                      *)
(***************************************************************************)
TitleBatchSize == 2
MaxPageLen == 2
MaxTitlePages == 3
MaxSiteArticles == 2
MinLen == 100
DefaultMaxArticles == 1000

NoTitle == 0

(***************************************************************************)
(* Texts.                                                                  *)
(***************************************************************************)
Rep(c, n) == [i \in 1..n |-> c]

Havolalar == <<"H","a","v","o","l","a","l","a","r">>
Manbalar == <<"M","a","n","b","a","l","a","r">>
Izohlar == <<"I","z","o","h","l","a","r">>

unwanted_sections == <<Havolalar, Manbalar, Izohlar>>

IsSpace(c) == c \in {" ", "\n", "\t"}

IsDigit(c) == c \in {"0","1","2","3","4","5","6","7","8","9"}

\* `pat` occurs in `text` at position i
OccursAt(text, pat, i) ==
    /\ i + Len(pat) - 1 <= Len(text)
    /\ \A j \in 1..Len(pat) : text[i + j - 1] = pat[j]

\* `section in text`
Contains(text, pat) == \E i \in 1..Len(text) : OccursAt(text, pat, i)

\* text.split(section)[0]: the part before the first occurrence
SplitFirst(text, pat) ==
    IF Contains(text, pat)
    THEN LET i == CHOOSE k \in 1..Len(text) :
                      /\ OccursAt(text, pat, k)
                      /\ \A m \in 1..(k - 1) : ~OccursAt(text, pat, m)
         IN  SubSeq(text, 1, i - 1)
    ELSE text

RECURSIVE RemoveSections(_, _)
RemoveSections(text, k) ==
    IF k > Len(unwanted_sections) THEN text
    ELSE RemoveSections(SplitFirst(text, unwanted_sections[k]), k + 1)

\* the length of the match of \[\d+\] at position i, 0 when there is none
CitationAt(text, i) ==
    IF text[i] # "[" THEN 0
    ELSE LET ends == {j \in (i + 2)..Len(text) :
                          /\ text[j] = "]"
                          /\ \A m \in (i + 1)..(j - 1) : IsDigit(text[m])}
         IN  IF ends = {} THEN 0
             ELSE (CHOOSE j \in ends : \A m \in ends : j <= m) - i + 1

\* position i lies inside a match of \[\d+\] (the matches cannot overlap)
InCitation(text, i) ==
    \E j \in 1..i : CitationAt(text, j) > 0 /\ i < j + CitationAt(text, j)

\* re.sub(r'\[\d+\]', '', text), on the positions lo..hi
RECURSIVE RemoveCitations(_, _, _)
RemoveCitations(text, lo, hi) ==
    IF lo > hi THEN <<>>
    ELSE IF lo = hi THEN (IF InCitation(text, lo) THEN <<>> ELSE <<text[lo]>>)
    ELSE LET mid == (lo + hi) \div 2
         IN  RemoveCitations(text, lo, mid) \o RemoveCitations(text, mid + 1, hi)

\* re.sub(r'\s+', ' ', text), on the positions lo..hi: a run of whitespace
\* leaves one space
RECURSIVE NormalizeSpace(_, _, _)
NormalizeSpace(text, lo, hi) ==
    IF lo > hi THEN <<>>
    ELSE IF lo = hi
         THEN IF ~IsSpace(text[lo]) THEN <<text[lo]>>
              ELSE IF lo > 1 /\ IsSpace(text[lo - 1]) THEN <<>>
              ELSE <<" ">>
    ELSE LET mid == (lo + hi) \div 2
         IN  NormalizeSpace(text, lo, mid) \o NormalizeSpace(text, mid + 1, hi)

\* text.strip()
Strip(text) ==
    LET keep == {i \in 1..Len(text) : ~IsSpace(text[i])}
    IN  IF keep = {} THEN <<>>
        ELSE SubSeq(text,
                    CHOOSE i \in keep : \A m \in keep : i <= m,
                    CHOOSE i \in keep : \A m \in keep : i >= m)

clean_text(text) ==
    LET cut == RemoveSections(text, 1)
        sub1 == RemoveCitations(cut, 1, Len(cut))
        sub2 == NormalizeSpace(sub1, 1, Len(sub1))
    IN  Strip(sub2)


(***************************************************************************)
(* The content source.  Pages is the table of page texts the model draws   *)
(* from; source[t] is the index of title t's page, 0 when the page does    *)
(* not exist.                                                              *)
(***************************************************************************)
Pages ==
    << Rep("a", 101),
       Rep("a", 100),
       Rep("a", 3),
       <<"a","b">> \o Manbalar \o Rep("a", 100),
       Rep("a", 98) \o <<"[","1","2","]"," ","\n","b"," ">> >>

PageIds == 0..Len(Pages)

\* clean_text of every page of the table, computed once
CleanedPages == [i \in 1..Len(Pages) |-> clean_text(Pages[i])]

\* self.cleaner.clean_text(text): looked up for a text of the table
cleaner_clean_text(text) ==
    IF \E i \in 1..Len(Pages) : Pages[i] = text
    THEN CleanedPages[CHOOSE i \in 1..Len(Pages) : Pages[i] = text]
    ELSE clean_text(text)

\* the pages of the multi-run crawl specifications: a long page, or none
CrawlPageIds == {0, 1}

None == [title |-> NoTitle, text |-> <<>>, length |-> 0]

(***************************************************************************)
(* Directory listing: sorted(list(output_path.glob('*.csv'))).  The names  *)
(* differ only from the number on, so the sort key of file n is the        *)
(* character codes of its decimal digits followed by '.' (46 < '0' = 48).  *)
(***************************************************************************)
RECURSIVE Digits(_)
Digits(n) == IF n < 10 THEN <<48 + n>> ELSE Digits(n \div 10) \o <<48 + (n % 10)>>

NameKey(n) == Digits(n) \o <<46>>

RECURSIVE LexLess(_, _)
LexLess(a, b) ==
    IF a = <<>> THEN b # <<>>
    ELSE IF b = <<>> THEN FALSE
    ELSE IF Head(a) # Head(b) THEN Head(a) < Head(b)
    ELSE LexLess(Tail(a), Tail(b))

NameLess(m, n) == LexLess(NameKey(m), NameKey(n))

RECURSIVE SortedFiles(_)
SortedFiles(S) ==
    IF S = {} THEN <<>>
    ELSE LET f == CHOOSE x \in S : \A y \in S \ {x} : NameLess(x, y)
         IN  <<f>> \o SortedFiles(S \ {f})

\* the content of an output file that pd.read_csv cannot parse
Unreadable == <<[title |-> NoTitle, text |-> <<>>, length |-> -1]>>

\* the lookup with a fallback: when the last listed file gives no title,
\* the file listed before it is asked
RECURSIVE ResumeTitleFallback(_, _)
ResumeTitleFallback(dir, listing) ==
    IF listing = <<>> THEN NoTitle
    ELSE LET df == dir[listing[Len(listing)]]
         IN  IF df = Unreadable \/ df = <<>>
             THEN ResumeTitleFallback(dir, SubSeq(listing, 1, Len(listing) - 1))
             ELSE df[1].title

\* df['title'].iloc[0] of the last listed file, None when there is no file,
\* when reading the file raises (the exception is caught) or when the file
\* has no record
ResumeTitle(dir, listing) ==
    IF listing = <<>> THEN NoTitle
    ELSE LET df == dir[listing[Len(listing)]]
         IN  IF df = Unreadable THEN NoTitle
             ELSE IF df = <<>> THEN NoTitle
             ELSE df[1].title

(***************************************************************************)
(* Title lists.                                                            *)
(***************************************************************************)
RECURSIVE Insert(_, _)
Insert(sorted, t) ==
    IF sorted = <<>> THEN <<t>>
    ELSE IF t < Head(sorted) THEN <<t>> \o sorted
    ELSE <<Head(sorted)>> \o Insert(Tail(sorted), t)

\* list.sort()
RECURSIVE SortTitles(_)
SortTitles(titles) ==
    IF titles = <<>> THEN <<>>
    ELSE Insert(SortTitles(SubSeq(titles, 1, Len(titles) - 1)), titles[Len(titles)])

RECURSIVE Concat(_)
Concat(files) ==
    IF files = <<>> THEN <<>> ELSE Head(files) \o Concat(Tail(files))

Elems(seq) == {seq[i] : i \in 1..Len(seq)}

\* all_titles.index(t): the first position of t (t occurs in titles)
IndexOf(titles, t) ==
    CHOOSE i \in 1..Len(titles) :
        titles[i] = t /\ \A j \in 1..(i - 1) : titles[j] # t

Min(a, b) == IF a < b THEN a ELSE b

\* the batches without the shorter last one
BatchesFullOnly(titles, size) ==
    [k \in 1..(Len(titles) \div size) |->
        SubSeq(titles, (k - 1) * size + 1, k * size)]

\* [titles[i:i + batch_size] for i in range(0, len(titles), batch_size)]
Batches(titles, size) ==
    [k \in 1..((Len(titles) + size - 1) \div size) |->
        SubSeq(titles, (k - 1) * size + 1, Min(k * size, Len(titles)))]

VARIABLES
    titleFiles,        \* the title directory: the title files in name order
    source,            \* the content source: title -> page id
    batch_size,        \* parameter batch_size
    max_workers,       \* parameter max_workers
    raising,           \* the content source: the titles whose fetch raises
    renamed,           \* the content source: the titles whose page has another title
    corrupt,           \* the title directory: the title files that cannot be read
    outFiles,          \* the output directory: file number -> records
    pc,                \* the position of the driver's main thread
    last_title,
    existing_files,
    all_titles,
    batches,
    next_file_num,
    work,              \* per submitted chunk: state, position, results, and as
                       \* history the titles fetched and whether it slept since
    snap,              \* as_completed: the futures finished at its entry
    doneQ,             \* as_completed: the futures finished since, in order
    cur,               \* the chunk whose results the collector holds
    found_last_title,
    fi, bi, ti,        \* sequential driver: file, batch and title position
    batch_data,
    runs,              \* history: number of runs started
    fetched,           \* history: titles fetched so far
    lastWritten,       \* history: the number of the file written last, 0 for none
    doneOrder,         \* history: this run's chunks in completion order
    atEntry,           \* history: how many had finished when as_completed was entered
    written,           \* history: this run's written chunks, in order
    subcats,           \* the category graph: category -> its subcategories
    root,              \* recursive_scrape: the category of the outermost call
    max_depth,         \* recursive_scrape: parameter max_depth
    max_articles,      \* recursive_scrape: parameter max_articles
    stack,             \* recursive_scrape: the calls in progress, innermost last
    visited,           \* recursive_scrape: the shared set visited
    article_count,     \* recursive_scrape: the count passed down and returned
    cpc,               \* recursive_scrape: "off", "start", "run" or "done"
    scraped,           \* history: category -> number of scrape_category calls
    allpages,          \* the title listing: the responses of the API, in order
    total_articles,    \* get_all_articles: the article count of the site
    titleDir,          \* the title batch files: file number -> titles
    current_batch,     \* get_all_articles: the buffer
    batch_number,
    total_collected,
    continue_token,    \* the number of responses read (0 is the code's None)
    epc                \* get_all_articles: "off", "start", "page", "rest" or "done"

enumVars == <<allpages, total_articles, titleDir, current_batch, batch_number,
              total_collected, continue_token, epc>>
inputVars == <<titleFiles, source, batch_size, max_workers, raising, renamed, corrupt>>
parVars == <<all_titles, next_file_num, work, snap, doneQ, cur, doneOrder, atEntry>>
seqVars == <<found_last_title, fi, bi, ti, batch_data>>
runVars == <<last_title, existing_files, batches, written>>
crawlOnly == <<inputVars, outFiles, pc, runVars, parVars, seqVars, runs, fetched, lastWritten>>
crawlVars == <<crawlOnly, enumVars>>
catVars == <<subcats, root, max_depth, max_articles, stack, visited, article_count, cpc,
             scraped>>
vars == <<crawlVars, catVars>>

\* self.wiki.page(title).text
PageText(title) == Pages[source[title]]

\* page.title: the title the source gives the page
PageTitle(title) == IF title \in renamed THEN title + NumTitles ELSE title

scrape_page(title) ==
    IF source[title] # 0
    THEN [title |-> PageTitle(title), text |-> PageText(title),
          length |-> Len(PageText(title))]
    ELSE None

\* scrape_page(title) raises
Raises(title) == title \in raising

\* the body of the per-title loop: the record is kept when the page exists
\* and its text is longer than the threshold; the kept text is cleaned; an
\* exception of the fetch is caught and the results are left as they are
ScrapeInto(results, title) ==
    IF Raises(title) THEN results
    ELSE LET result == scrape_page(title)
         IN  IF result # None /\ Len(result.text) > MinLen
             THEN Append(results,
                         [result EXCEPT !.text = cleaner_clean_text(result.text)])
             ELSE results

(***************************************************************************)
(* Initial states.                                                         *)
(***************************************************************************)
Titles == 1..NumTitles

\* a title file's content: the titles of S, in descending order
RECURSIVE RevSeq(_)
RevSeq(S) ==
    IF S = {} THEN <<>>
    ELSE LET m == CHOOSE x \in S : \A y \in S : y <= x
         IN  <<m>> \o RevSeq(S \ {m})

\* the title directory: two title files that split the titles at j
Layouts == { <<RevSeq(1..j), RevSeq((j + 1)..NumTitles)>> : j \in 1..NumTitles }

\* no run is going on: the locals of the drivers hold nothing
Idle ==
    /\ pc = "idle"
    /\ last_title = NoTitle
    /\ existing_files = <<>>
    /\ all_titles = <<>>
    /\ batches = <<>>
    /\ next_file_num = 0
    /\ work = <<>>
    /\ snap = {}
    /\ doneQ = <<>>
    /\ cur = 0
    /\ found_last_title = FALSE
    /\ fi = 0 /\ bi = 0 /\ ti = 0
    /\ batch_data = <<>>
    /\ doneOrder = <<>>
    /\ atEntry = 0
    /\ written = <<>>

NoHistory ==
    /\ runs = 0
    /\ fetched = {}
    /\ lastWritten = 0

\* no category crawl
CatOff ==
    /\ subcats = <<>>
    /\ root = 0
    /\ max_depth = 0
    /\ max_articles = 0
    /\ stack = <<>>
    /\ visited = {}
    /\ article_count = 0
    /\ cpc = "off"
    /\ scraped = <<>>

\* no title enumeration
EnumOff ==
    /\ allpages = <<>>
    /\ total_articles = 0
    /\ titleDir = <<>>
    /\ current_batch = <<>>
    /\ batch_number = 0
    /\ total_collected = 0
    /\ continue_token = 0
    /\ epc = "off"

\* every fetch returns, every page has the title asked for, every title
\* file can be read
NoFaults ==
    /\ raising = {}
    /\ renamed = {}
    /\ corrupt = {}

\* the output directory is empty and no run was started
Fresh ==
    /\ outFiles = <<>>
    /\ Idle
    /\ NoHistory
    /\ CatOff
    /\ EnumOff

Init ==
    /\ titleFiles \in Layouts
    /\ source \in [Titles -> CrawlPageIds]
    /\ batch_size \in 1..MaxBatch
    /\ max_workers \in 1..MaxWorkers
    /\ NoFaults
    /\ Fresh

\* the parallel driver merges the title files before it sorts them (lines
\* 361-368): its runs start from one directory of two title files
InitPar ==
    /\ titleFiles = <<RevSeq(1..1), RevSeq(2..NumTitles)>>
    /\ source \in [Titles -> CrawlPageIds]
    /\ batch_size \in 1..MaxBatch
    /\ max_workers \in 1..MaxWorkers
    /\ NoFaults
    /\ Fresh

\* the output directory is empty and one run is left: the runs before it
\* were killed before they fetched a title
OneRunLeft ==
    /\ outFiles = <<>>
    /\ Idle
    /\ runs = MaxRuns - 1
    /\ fetched = {}
    /\ lastWritten = 0
    /\ CatOff
    /\ EnumOff

\* runs over a source that gives some pages another title than asked for
InitRenamed ==
    /\ titleFiles = <<RevSeq(1..1), RevSeq(2..NumTitles)>>
    /\ source = [t \in Titles |-> 1]
    /\ raising = {}
    /\ renamed \in SUBSET Titles
    /\ corrupt = {}
    /\ batch_size \in 1..MaxBatch
    /\ max_workers \in 1..MaxWorkers
    /\ Fresh

\* sequential runs over a source that gives some pages another title
InitSkip ==
    /\ titleFiles \in Layouts
    /\ source = [t \in Titles |-> 1]
    /\ raising = {}
    /\ renamed \in SUBSET Titles
    /\ corrupt = {}
    /\ batch_size \in 1..MaxBatch
    /\ max_workers = 1
    /\ Fresh

\* one run in which the fetch of some titles raises
InitFaults ==
    /\ titleFiles \in Layouts
    /\ source \in [Titles -> CrawlPageIds]
    /\ raising \in SUBSET {t \in Titles : source[t] = 1}
    /\ renamed = {}
    /\ corrupt = {}
    /\ batch_size \in 1..MaxBatch
    /\ max_workers \in 1..MaxWorkers
    /\ OneRunLeft

\* one run over a title directory in which some title files cannot be read
InitCorrupt ==
    /\ titleFiles \in Layouts
    /\ source \in [Titles -> CrawlPageIds]
    /\ raising = {}
    /\ renamed = {}
    /\ corrupt \in SUBSET (1..2)
    /\ batch_size \in 1..MaxBatch
    /\ max_workers \in 1..MaxWorkers
    /\ OneRunLeft

\* crawls of long pages only
InitResume ==
    /\ titleFiles = <<RevSeq(1..1), RevSeq(2..NumTitles)>>
    /\ source = [t \in Titles |-> 1]
    /\ batch_size \in 1..MaxBatch
    /\ max_workers \in 1..MaxWorkers
    /\ NoFaults
    /\ Fresh

\* the title sequences of the partition specification
RECURSIVE SeqsUpTo(_, _)
SeqsUpTo(S, n) ==
    IF n = 0 THEN {<<>>}
    ELSE LET shorter == SeqsUpTo(S, n - 1)
         IN  shorter \cup {Append(q, x) : q \in shorter, x \in S}

\* a driver is about to split a title list: the parallel driver its
\* remaining titles, the sequential driver the titles of a title file
InitPartition ==
    /\ \E T \in SeqsUpTo(Titles, MaxPartLen) :
          \/ /\ pc = "par_split"
             /\ all_titles = T
             /\ titleFiles = <<T>>
             /\ fi = 0
          \/ /\ pc = "seq_file"
             /\ all_titles = <<>>
             /\ titleFiles = <<T>>
             /\ fi = 1
    /\ source = [t \in Titles |-> 1]
    /\ batch_size \in 1..MaxPartBatch
    /\ max_workers = 1
    /\ NoFaults
    /\ outFiles = <<>>
    /\ last_title = NoTitle
    /\ existing_files = <<>>
    /\ batches = <<>>
    /\ next_file_num = 0
    /\ work = <<>>
    /\ snap = {}
    /\ doneQ = <<>>
    /\ cur = 0
    /\ found_last_title = TRUE
    /\ bi = 0 /\ ti = 0
    /\ batch_data = <<>>
    /\ doneOrder = <<>>
    /\ atEntry = 0
    /\ written = <<>>
    /\ runs = MaxRuns
    /\ fetched = {}
    /\ lastWritten = 0
    /\ CatOff
    /\ EnumOff

\* the same crawl over every page of the table
InitPages ==
    /\ titleFiles \in Layouts
    /\ source \in [Titles -> PageIds]
    /\ batch_size \in 1..MaxBatch
    /\ max_workers \in 1..MaxWorkers
    /\ NoFaults
    /\ Fresh

\* a crawl of ManyTitles long pages, one title a batch, one worker
InitMany ==
    /\ titleFiles = <<RevSeq(1..ManyTitles), <<>> >>
    /\ source = [t \in 1..ManyTitles |-> 1]
    /\ batch_size = 1
    /\ max_workers = 1
    /\ NoFaults
    /\ Fresh

\* the run is over (or the process was killed): the locals are gone
EndRun ==
    /\ pc' = "idle"
    /\ last_title' = NoTitle
    /\ existing_files' = <<>>
    /\ all_titles' = <<>>
    /\ batches' = <<>>
    /\ next_file_num' = 0
    /\ work' = <<>>
    /\ snap' = {}
    /\ doneQ' = <<>>
    /\ cur' = 0
    /\ found_last_title' = FALSE
    /\ fi' = 0 /\ bi' = 0 /\ ti' = 0
    /\ batch_data' = <<>>
    /\ doneOrder' = <<>>
    /\ atEntry' = 0
    /\ written' = <<>>

\* len(existing_files) + 1: the number of the next output file
NextFileNum(files) == Len(files) + 1

\* batch_df.to_csv(output_file): the file n holds the records afterwards
WriteFile(dir, n, records) ==
    [m \in DOMAIN dir \cup {n} |-> IF m = n THEN records ELSE dir[m]]

(***************************************************************************)
(* parallel_scrape_from_files                                              *)
(***************************************************************************)
\* lines 346-357: the last processed title
ParResume ==
    /\ pc = "idle"
    /\ runs < MaxRuns
    /\ runs' = runs + 1
    /\ existing_files' = SortedFiles(DOMAIN outFiles)
    /\ last_title' = ResumeTitle(outFiles, existing_files')
    /\ pc' = "par_load"
    /\ UNCHANGED <<catVars, inputVars, enumVars, outFiles, batches, written, parVars, seqVars,
                   fetched, lastWritten>>

\* line 363: pd.read_csv of a title file raises; nothing catches it and
\* the run is over
ParLoadFail ==
    /\ pc = "par_load"
    /\ corrupt # {}
    /\ EndRun
    /\ UNCHANGED <<catVars, inputVars, enumVars, outFiles, runs, fetched, lastWritten>>

\* lines 359-369: all titles of all title files, sorted
ParLoad ==
    /\ pc = "par_load"
    /\ corrupt = {}
    /\ all_titles' = SortTitles(Concat(titleFiles))
    /\ pc' = "par_skip"
    /\ UNCHANGED <<catVars, inputVars, enumVars, outFiles, runVars, next_file_num, work, snap, doneQ,
                   cur, doneOrder, atEntry, seqVars, runs, fetched, lastWritten>>

\* lines 371-378 with nothing left when the last processed title is not found
ParSkipStrict ==
    /\ pc = "par_skip"
    /\ all_titles' =
          IF last_title = NoTitle THEN all_titles
          ELSE IF last_title \in Elems(all_titles)
          THEN SubSeq(all_titles, IndexOf(all_titles, last_title) + 1, Len(all_titles))
          ELSE <<>>
    /\ pc' = "par_split"
    /\ UNCHANGED <<catVars, inputVars, enumVars, outFiles, runVars, next_file_num, work, snap, doneQ,
                   cur, doneOrder, atEntry, seqVars, runs, fetched, lastWritten>>

\* lines 371-378: continue after the last processed title
ParSkip ==
    /\ pc = "par_skip"
    /\ all_titles' =
          IF last_title # NoTitle /\ last_title \in Elems(all_titles)
          THEN SubSeq(all_titles, IndexOf(all_titles, last_title) + 1, Len(all_titles))
          ELSE all_titles
    /\ pc' = "par_split"
    /\ UNCHANGED <<catVars, inputVars, enumVars, outFiles, runVars, next_file_num, work, snap, doneQ,
                   cur, doneOrder, atEntry, seqVars, runs, fetched, lastWritten>>

\* lines 380-382: split the remaining titles into batches
ParSplit ==
    /\ pc = "par_split"
    /\ batches' = Batches(all_titles, batch_size)
    /\ pc' = "par_submit"
    /\ UNCHANGED <<catVars, inputVars, enumVars, outFiles, last_title, existing_files, written, parVars,
                   seqVars, runs, fetched, lastWritten>>

\* lines 385-390: the counter, and every batch submitted to the pool
ParSubmit ==
    /\ pc = "par_submit"
    /\ next_file_num' = NextFileNum(existing_files)
    /\ work' = [k \in 1..Len(batches) |-> [st |-> "queued", pos |-> 0, results |-> <<>>, log |-> <<>>,
                                         waited |-> TRUE, exc |-> FALSE]]
    /\ pc' = "par_pool"
    /\ UNCHANGED <<catVars, inputVars, enumVars, outFiles, runVars, all_titles, snap, doneQ, cur,
                   doneOrder, atEntry, seqVars, runs, fetched, lastWritten>>

\* the parallel run is past the submission of its batches
InPool == pc \in {"par_pool", "par_collect", "par_write"}

Running == {k \in DOMAIN work : work[k].st = "running"}

\* a pool thread takes the work items in the order submitted
CanStart(k) ==
    /\ work[k].st = "queued"
    /\ \A j \in 1..(k - 1) : work[j].st # "queued"
    /\ Cardinality(Running) < max_workers

\* a pool thread takes chunk k from the queue and calls scrape_batch
WorkerStart(k) ==
    /\ InPool
    /\ CanStart(k)
    /\ work' = [work EXCEPT ![k].st = "running"]
    /\ UNCHANGED <<catVars, inputVars, enumVars, outFiles, pc, runVars, all_titles, next_file_num,
                   snap, doneQ, cur, doneOrder, atEntry, seqVars, runs, fetched,
                   lastWritten>>

\* scrape_batch going through its titles from the last to the first
WorkerFetchReversed(k) ==
    /\ InPool
    /\ work[k].st = "running"
    /\ work[k].pos < Len(batches[k])
    /\ LET title == batches[k][Len(batches[k]) - work[k].pos]
       IN  /\ work' = [work EXCEPT ![k].pos = @ + 1,
                                   ![k].results = ScrapeInto(@, title),
                                   ![k].log = Append(@, title),
                                   ![k].waited = ~Raises(title)]
           /\ fetched' = fetched \cup {title}
    /\ UNCHANGED <<catVars, inputVars, enumVars, outFiles, pc, runVars, all_titles, next_file_num,
                   snap, doneQ, cur, doneOrder, atEntry, seqVars, runs, lastWritten>>

\* scrape_batch with the try around the whole loop: an exception of a fetch
\* ends the chunk, which returns what it has
WorkerFetchAbort(k) ==
    /\ InPool
    /\ work[k].st = "running"
    /\ work[k].pos < Len(batches[k])
    /\ work' = [work EXCEPT ![k].pos = IF Raises(batches[k][work[k].pos + 1])
                                       THEN Len(batches[k]) ELSE @ + 1,
                            ![k].results = ScrapeInto(@, batches[k][work[k].pos + 1]),
                            ![k].log = Append(@, batches[k][work[k].pos + 1]),
                            ![k].waited = ~Raises(batches[k][work[k].pos + 1])]
    /\ fetched' = fetched \cup {batches[k][work[k].pos + 1]}
    /\ UNCHANGED <<catVars, inputVars, enumVars, outFiles, pc, runVars, all_titles, next_file_num,
                   snap, doneQ, cur, doneOrder, atEntry, seqVars, runs, lastWritten>>

\* scrape_batch with a result list that is not its own: the record is
\* appended after the results of a chunk running at the same time
WorkerFetchShared(k) ==
    /\ InPool
    /\ work[k].st = "running"
    /\ work[k].pos < Len(batches[k])
    /\ LET others == Running \ {k}
           base == IF others = {}
                   THEN work[k].results
                   ELSE work[CHOOSE j \in others : TRUE].results \o work[k].results
       IN  work' = [work EXCEPT ![k].pos = @ + 1,
                                ![k].results = ScrapeInto(base, batches[k][work[k].pos + 1]),
                                ![k].log = Append(@, batches[k][work[k].pos + 1]),
                                ![k].waited = ~Raises(batches[k][work[k].pos + 1])]
    /\ fetched' = fetched \cup {batches[k][work[k].pos + 1]}
    /\ UNCHANGED <<catVars, inputVars, enumVars, outFiles, pc, runVars, all_titles, next_file_num,
                   snap, doneQ, cur, doneOrder, atEntry, seqVars, runs, lastWritten>>

\* lines 334-343, scrape_batch: the next title of chunk k is scraped, and
\* the thread sleeps (line 343) unless the fetch raised (line 342, continue)
WorkerFetch(k) ==
    /\ InPool
    /\ work[k].st = "running"
    /\ work[k].pos < Len(batches[k])
    /\ work' = [work EXCEPT ![k].pos = @ + 1,
                            ![k].results = ScrapeInto(@, batches[k][work[k].pos + 1]),
                            ![k].log = Append(@, batches[k][work[k].pos + 1]),
                            ![k].waited = ~Raises(batches[k][work[k].pos + 1])]
    /\ fetched' = fetched \cup {batches[k][work[k].pos + 1]}
    /\ UNCHANGED <<catVars, inputVars, enumVars, outFiles, pc, runVars, all_titles, next_file_num,
                   snap, doneQ, cur, doneOrder, atEntry, seqVars, runs, lastWritten>>

\* line 344, scrape_batch returns: the future of chunk k is finished, and
\* as_completed, once entered, is told
WorkerFinish(k) ==
    /\ InPool
    /\ work[k].st = "running"
    /\ work[k].pos = Len(batches[k])
    /\ work' = [work EXCEPT ![k].st = "finished"]
    /\ doneOrder' = Append(doneOrder, k)
    /\ doneQ' = IF pc = "par_pool" THEN doneQ ELSE Append(doneQ, k)
    /\ UNCHANGED <<catVars, inputVars, enumVars, outFiles, pc, runVars, all_titles, next_file_num,
                   snap, cur, atEntry, seqVars, runs, fetched, lastWritten>>

\* scrape_batch raises outside the try of its loop (the progress bar, or
\* the print of the except clause): the future of chunk k is finished and
\* holds the exception
WorkerRaise(k) ==
    /\ InPool
    /\ work[k].st = "running"
    /\ work' = [work EXCEPT ![k].st = "finished", ![k].exc = TRUE]
    /\ doneOrder' = Append(doneOrder, k)
    /\ doneQ' = IF pc = "par_pool" THEN doneQ ELSE Append(doneQ, k)
    /\ UNCHANGED <<catVars, inputVars, enumVars, outFiles, pc, runVars, all_titles, next_file_num,
                   snap, cur, atEntry, seqVars, runs, fetched, lastWritten>>

Start == \E k \in DOMAIN work : WorkerStart(k)

Raise == \E k \in DOMAIN work : WorkerRaise(k)

Fetch == \E k \in DOMAIN work : WorkerFetch(k)

Finish == \E k \in DOMAIN work : WorkerFinish(k)

\* line 392, as_completed is entered: the futures already finished are
\* yielded first, the others as they finish
ParEnter ==
    /\ pc = "par_pool"
    /\ snap' = {k \in DOMAIN work : work[k].st = "finished"}
    /\ atEntry' = Len(doneOrder)
    /\ pc' = "par_collect"
    /\ UNCHANGED <<catVars, inputVars, enumVars, outFiles, runVars, all_titles, next_file_num, work, doneQ,
                   cur, doneOrder, seqVars, runs, fetched, lastWritten>>

\* the collector with the counter incremented for every future, a file
\* written or not
ParTakeCounting(k) ==
    /\ pc = "par_collect"
    /\ IF snap # {} THEN k \in snap ELSE doneQ # <<>> /\ k = Head(doneQ)
    /\ snap' = snap \ {k}
    /\ doneQ' = IF snap # {} THEN doneQ ELSE Tail(doneQ)
    /\ IF work[k].exc
       THEN /\ cur' = 0
            /\ pc' = "par_collect"
            /\ work' = [work EXCEPT ![k].st = "failed"]
            /\ next_file_num' = next_file_num + 1
       ELSE IF work[k].results # <<>>
       THEN /\ cur' = k
            /\ pc' = "par_write"
            /\ work' = work
            /\ next_file_num' = next_file_num
       ELSE /\ cur' = 0
            /\ pc' = "par_collect"
            /\ work' = [work EXCEPT ![k].st = "collected"]
            /\ next_file_num' = next_file_num + 1
    /\ UNCHANGED <<catVars, inputVars, enumVars, outFiles, runVars, all_titles, doneOrder,
                   atEntry, seqVars, runs, fetched, lastWritten>>

\* lines 392-396 and 402-403: the collector takes the next finished
\* future; result() of a future that holds an exception raises, which is
\* caught; an empty result list is skipped
ParTake(k) ==
    /\ pc = "par_collect"
    /\ IF snap # {} THEN k \in snap ELSE doneQ # <<>> /\ k = Head(doneQ)
    /\ snap' = snap \ {k}
    /\ doneQ' = IF snap # {} THEN doneQ ELSE Tail(doneQ)
    /\ IF work[k].exc
       THEN /\ cur' = 0
            /\ pc' = "par_collect"
            /\ work' = [work EXCEPT ![k].st = "failed"]
       ELSE IF work[k].results # <<>>
       THEN /\ cur' = k
            /\ pc' = "par_write"
            /\ work' = work
       ELSE /\ cur' = 0
            /\ pc' = "par_collect"
            /\ work' = [work EXCEPT ![k].st = "collected"]
    /\ UNCHANGED <<catVars, inputVars, enumVars, outFiles, runVars, all_titles, next_file_num, doneOrder,
                   atEntry, seqVars, runs, fetched, lastWritten>>

Take == \E k \in DOMAIN work : ParTake(k)

\* lines 397-401: the results are written to the next numbered file
ParWrite ==
    /\ pc = "par_write"
    /\ outFiles' = WriteFile(outFiles, next_file_num, work[cur].results)
    /\ lastWritten' = next_file_num
    /\ written' = Append(written, [num |-> next_file_num, chunk |-> cur])
    /\ next_file_num' = next_file_num + 1
    /\ work' = [work EXCEPT ![cur].st = "collected"]
    /\ cur' = 0
    /\ pc' = "par_collect"
    /\ UNCHANGED <<catVars, inputVars, enumVars, last_title, existing_files, batches, all_titles, snap,
                   doneQ, doneOrder, atEntry, seqVars, runs, fetched>>

\* to_csv raises and the failed write takes the number all the same
ParWriteFailCounting ==
    /\ pc = "par_write"
    /\ \/ outFiles' = outFiles /\ lastWritten' = lastWritten
       \/ /\ \E n \in 0..(Len(work[cur].results) - 1) :
                outFiles' = WriteFile(outFiles, next_file_num,
                                      SubSeq(work[cur].results, 1, n))
          /\ lastWritten' = next_file_num
    /\ next_file_num' = next_file_num + 1
    /\ work' = [work EXCEPT ![cur].st = "failed"]
    /\ cur' = 0
    /\ pc' = "par_collect"
    /\ UNCHANGED <<catVars, inputVars, enumVars, runVars, all_titles, snap, doneQ,
                   doneOrder, atEntry, seqVars, runs, fetched>>

\* lines 399 and 402-403: to_csv raises, with no file created or with a file
\* that holds only the first n records; the exception is caught, the counter
\* keeps its value and the loop goes on
ParWriteFail ==
    /\ pc = "par_write"
    /\ \/ outFiles' = outFiles /\ lastWritten' = lastWritten
       \/ /\ \E n \in 0..(Len(work[cur].results) - 1) :
                outFiles' = WriteFile(outFiles, next_file_num,
                                      SubSeq(work[cur].results, 1, n))
          /\ lastWritten' = next_file_num
    /\ work' = [work EXCEPT ![cur].st = "failed"]
    /\ cur' = 0
    /\ pc' = "par_collect"
    /\ UNCHANGED <<catVars, inputVars, enumVars, runVars, all_titles, next_file_num, snap, doneQ,
                   doneOrder, atEntry, seqVars, runs, fetched>>

\* every future was taken: the pool is shut down and the run returns
ParDone ==
    /\ pc = "par_collect"
    /\ \A k \in DOMAIN work : work[k].st \in {"collected", "failed"}
    /\ EndRun
    /\ UNCHANGED <<catVars, inputVars, enumVars, outFiles, runs, fetched, lastWritten>>

(***************************************************************************)
(* The process is killed.                                                  *)
(***************************************************************************)
Kill ==
    /\ pc # "idle"
    /\ EndRun
    /\ UNCHANGED <<catVars, inputVars, enumVars, outFiles, runs, fetched, lastWritten>>

\* the records the pending save writes, <<>> when the driver is not at a save
Saving ==
    IF pc = "par_write" THEN work[cur].results
    ELSE IF pc = "seq_save" THEN batch_data
    ELSE <<>>

\* the number of the file the pending save writes
SavingNum == IF pc = "par_write" THEN next_file_num ELSE NextFileNum(existing_files)

\* killed inside to_csv, or to_csv raises in the sequential driver, where
\* nothing catches it: the run is over, and the file exists and holds only
\* the first n records
KillInWrite ==
    /\ Saving # <<>>
    /\ \E n \in 0..(Len(Saving) - 1) :
          outFiles' = WriteFile(outFiles, SavingNum, SubSeq(Saving, 1, n))
    /\ lastWritten' = SavingNum
    /\ EndRun
    /\ UNCHANGED <<catVars, inputVars, enumVars, runs, fetched>>

\* killed inside to_csv in the middle of a record: the file exists and
\* cannot be parsed
KillGarbled ==
    /\ Saving # <<>>
    /\ outFiles' = WriteFile(outFiles, SavingNum, Unreadable)
    /\ lastWritten' = SavingNum
    /\ EndRun
    /\ UNCHANGED <<catVars, inputVars, enumVars, runs, fetched>>

(***************************************************************************)
(* scrape_from_title_files                                                 *)
(***************************************************************************)
\* lines 249-267: the last processed title, the title files, the skip flag
SeqResume ==
    /\ pc = "idle"
    /\ runs < MaxRuns
    /\ runs' = runs + 1
    /\ existing_files' = SortedFiles(DOMAIN outFiles)
    /\ last_title' = ResumeTitle(outFiles, existing_files')
    /\ found_last_title' = (last_title' = NoTitle)
    /\ fi' = 1
    /\ pc' = "seq_file"
    /\ UNCHANGED <<catVars, inputVars, enumVars, outFiles, batches, written, parVars, bi, ti, batch_data,
                   fetched, lastWritten>>

\* line 272: pd.read_csv of the next title file raises; nothing catches it
\* and the run is over
SeqReadFail ==
    /\ pc = "seq_file"
    /\ fi <= Len(titleFiles)
    /\ fi \in corrupt
    /\ EndRun
    /\ UNCHANGED <<catVars, inputVars, enumVars, outFiles, runs, fetched, lastWritten>>

\* lines 268-279 with the skip flag computed anew for every title file
SeqReadFileResetting ==
    /\ pc = "seq_file"
    /\ fi <= Len(titleFiles)
    /\ fi \notin corrupt
    /\ batches' = Batches(SortTitles(titleFiles[fi]), batch_size)
    /\ found_last_title' = (last_title = NoTitle)
    /\ bi' = 1
    /\ pc' = "seq_batch"
    /\ UNCHANGED <<catVars, inputVars, enumVars, outFiles, last_title, existing_files, written, parVars,
                   fi, ti, batch_data, runs, fetched, lastWritten>>

\* lines 268-279: the next title file is read, sorted and split
SeqReadFile ==
    /\ pc = "seq_file"
    /\ fi <= Len(titleFiles)
    /\ fi \notin corrupt
    /\ batches' = Batches(SortTitles(titleFiles[fi]), batch_size)
    /\ bi' = 1
    /\ pc' = "seq_batch"
    /\ UNCHANGED <<catVars, inputVars, enumVars, outFiles, last_title, existing_files, written, parVars,
                   found_last_title, fi, ti, batch_data, runs, fetched, lastWritten>>

\* line 268: no title file is left, the run returns
SeqDone ==
    /\ pc = "seq_file"
    /\ fi > Len(titleFiles)
    /\ EndRun
    /\ UNCHANGED <<catVars, inputVars, enumVars, outFiles, runs, fetched, lastWritten>>

\* line 281: the batches of the file are exhausted
SeqNextFile ==
    /\ pc = "seq_batch"
    /\ bi > Len(batches)
    /\ fi' = fi + 1
    /\ pc' = "seq_file"
    /\ UNCHANGED <<catVars, inputVars, enumVars, outFiles, runVars, parVars, found_last_title, bi, ti,
                   batch_data, runs, fetched, lastWritten>>

\* lines 283-286: skip until the last processed title is found
SeqSkipBatch ==
    /\ pc = "seq_batch"
    /\ bi <= Len(batches)
    /\ ~found_last_title
    /\ found_last_title' = (last_title \in Elems(batches[bi]))
    /\ bi' = bi + 1
    /\ UNCHANGED <<catVars, inputVars, enumVars, outFiles, pc, runVars, parVars, fi, ti, batch_data,
                   runs, fetched, lastWritten>>

\* lines 288-289: the batch is processed
SeqBeginBatch ==
    /\ pc = "seq_batch"
    /\ bi <= Len(batches)
    /\ found_last_title
    /\ batch_data' = <<>>
    /\ ti' = 1
    /\ pc' = "seq_title"
    /\ UNCHANGED <<catVars, inputVars, enumVars, outFiles, runVars, parVars, found_last_title, fi, bi,
                   runs, fetched, lastWritten>>

\* lines 292-301: one title of the batch
SeqFetch ==
    /\ pc = "seq_title"
    /\ ti <= Len(batches[bi])
    /\ batch_data' = ScrapeInto(batch_data, batches[bi][ti])
    /\ fetched' = fetched \cup {batches[bi][ti]}
    /\ ti' = ti + 1
    /\ UNCHANGED <<catVars, inputVars, enumVars, outFiles, pc, runVars, parVars, found_last_title, fi, bi,
                   runs, lastWritten>>

\* line 292: the titles of the batch are exhausted
SeqEndBatch ==
    /\ pc = "seq_title"
    /\ ti > Len(batches[bi])
    /\ pc' = "seq_save"
    /\ UNCHANGED <<catVars, inputVars, enumVars, outFiles, runVars, parVars, seqVars, runs, fetched,
                   lastWritten>>

\* lines 303-310: the batch is saved if it has data
SeqSave ==
    /\ pc = "seq_save"
    /\ IF batch_data # <<>>
       THEN /\ outFiles' = WriteFile(outFiles, NextFileNum(existing_files), batch_data)
            /\ existing_files' = Append(existing_files, NextFileNum(existing_files))
            /\ lastWritten' = NextFileNum(existing_files)
            /\ written' = Append(written, [num |-> NextFileNum(existing_files),
                                           chunk |-> bi])
       ELSE UNCHANGED <<outFiles, existing_files, lastWritten, written>>
    /\ bi' = bi + 1
    /\ pc' = "seq_batch"
    /\ UNCHANGED <<catVars, inputVars, enumVars, last_title, batches, parVars, found_last_title, fi, ti,
                   batch_data, runs, fetched>>

(***************************************************************************)
(* recursive_scrape.  The recursion is a stack of calls; a call holds its  *)
(* category, its depth budget and the subcategories still to descend into. *)
(* article_count is passed to each call and taken back from it, so one     *)
(* variable carries it.                                                    *)
(***************************************************************************)
Cats == 1..NumCats

\* the ascending sequence of the set S: the order of the member listing
RECURSIVE AscSeq(_)
AscSeq(S) ==
    IF S = {} THEN <<>>
    ELSE LET m == CHOOSE x \in S : \A y \in S : x <= y
         IN  <<m>> \o AscSeq(S \ {m})

\* lines 36-44: the members of the category, articles and subcategories
get_category_members(c) ==
    [i \in 1..(ArticlesPerCat + Cardinality(subcats[c])) |->
        IF i <= ArticlesPerCat
        THEN [cat |-> FALSE, name |-> i]
        ELSE [cat |-> TRUE, name |-> AscSeq(subcats[c])[i - ArticlesPerCat]]]

IsCat(member) == member.cat

\* lines 75-83: the members that are categories
get_subcategories(c) ==
    LET cats == SelectSeq(get_category_members(c), IsCat)
    IN  [i \in 1..Len(cats) |-> cats[i].name]

InitCat ==
    /\ subcats \in [Cats -> SUBSET Cats]
    /\ root \in Cats
    /\ max_depth \in (-1)..MaxDepth
    /\ max_articles \in {LowMaxArticles, DefaultMaxArticles}
    /\ stack = <<>>
    /\ visited = {}
    /\ article_count = 0
    /\ cpc = "start"
    /\ scraped = [c \in Cats |-> 0]
    /\ titleFiles = <<>>
    /\ source = <<>>
    /\ batch_size = 1
    /\ max_workers = 1
    /\ NoFaults
    /\ EnumOff
    /\ outFiles = <<>>
    /\ Idle
    /\ NoHistory

\* line 89 without the ceiling on the article count
RefusedNoCeiling(c, depth) == depth < 0 \/ c \in visited

\* line 89: the call returns at once
Refused(c, depth) == depth < 0 \/ c \in visited \/ article_count >= max_articles

\* lines 92-99 without line 93: the category is not marked visited
VisitUnmarked(c, depth, calls) ==
    /\ visited' = visited
    /\ article_count' = article_count + Len(get_category_members(c))
    /\ scraped' = [scraped EXCEPT ![c] = @ + 1]
    /\ stack' = Append(calls, [name |-> c, depth |-> depth, subs |-> get_subcategories(c)])

\* lines 92-99: the category is marked, counted and scraped, and the call,
\* pushed on the calls in progress, goes on to its subcategories
Visit(c, depth, calls) ==
    /\ visited' = visited \cup {c}
    /\ article_count' = article_count + Len(get_category_members(c))
    /\ scraped' = [scraped EXCEPT ![c] = @ + 1]
    /\ stack' = Append(calls, [name |-> c, depth |-> depth, subs |-> get_subcategories(c)])

\* the outermost call is refused
RecRefuseRoot ==
    /\ cpc = "start"
    /\ Refused(root, max_depth)
    /\ cpc' = "done"
    /\ UNCHANGED <<crawlVars, subcats, root, max_depth, max_articles, stack, visited,
                   article_count, scraped>>

\* the outermost call enters its category
RecEnterRoot ==
    /\ cpc = "start"
    /\ ~Refused(root, max_depth)
    /\ Visit(root, max_depth, stack)
    /\ cpc' = "run"
    /\ UNCHANGED <<crawlVars, subcats, root, max_depth, max_articles>>

Top == stack[Len(stack)]

\* the rest of the loop of the innermost call
Advance == [stack EXCEPT ![Len(stack)].subs = Tail(@)]

\* lines 100-101: the call for the next subcategory returns at once
RecRefuse ==
    /\ cpc = "run"
    /\ Top.subs # <<>>
    /\ Refused(Head(Top.subs), Top.depth - 1)
    /\ stack' = Advance
    /\ UNCHANGED <<crawlVars, subcats, root, max_depth, max_articles, visited,
                   article_count, cpc, scraped>>

\* lines 100-101: the call for the next subcategory enters it
RecEnter ==
    /\ cpc = "run"
    /\ Top.subs # <<>>
    /\ ~Refused(Head(Top.subs), Top.depth - 1)
    /\ Visit(Head(Top.subs), Top.depth - 1, Advance)
    /\ UNCHANGED <<crawlVars, subcats, root, max_depth, max_articles, cpc>>

\* line 103: the innermost call returns article_count
RecReturn ==
    /\ cpc = "run"
    /\ Top.subs = <<>>
    /\ stack' = SubSeq(stack, 1, Len(stack) - 1)
    /\ cpc' = IF Len(stack) = 1 THEN "done" ELSE "run"
    /\ UNCHANGED <<crawlVars, subcats, root, max_depth, max_articles, visited,
                   article_count, scraped>>

NextCat == RecRefuseRoot \/ RecEnterRoot \/ RecRefuse \/ RecEnter \/ RecReturn

\* the recursive crawl; a call that can take a step takes it
SpecCat == InitCat /\ [][NextCat]_vars /\ WF_vars(NextCat)

(***************************************************************************)
(* get_all_articles: the flat enumeration of the titles of the site.  The  *)
(* code flushes its buffer at 10,000 titles and asks for 500 titles a      *)
(* response; the model keeps the comparison of line 142 and takes a        *)
(* threshold and a response size that a listing of a few responses crosses *)
(* several times.  A title is named by its position in the listing.        *)
(***************************************************************************)
\* the enumeration is about to start in an empty title directory
InitTitles ==
    /\ allpages = <<>>
    /\ total_articles = 0
    /\ titleDir = <<>>
    /\ current_batch = <<>>
    /\ batch_number = 0
    /\ total_collected = 0
    /\ continue_token = 0
    /\ epc = "start"
    /\ titleFiles = <<>>
    /\ source = <<>>
    /\ batch_size = 1
    /\ max_workers = 1
    /\ NoFaults
    /\ outFiles = <<>>
    /\ Idle
    /\ NoHistory
    /\ CatOff

\* lines 113-120: the article count of the site; the count of the site the
\* code names is positive, and line 151 divides by it
EnumStart ==
    /\ epc = "start"
    /\ total_articles' \in 1..MaxSiteArticles
    /\ epc' = "page"
    /\ UNCHANGED <<crawlOnly, catVars, allpages, titleDir, current_batch, batch_number,
                   total_collected, continue_token>>

\* lines 139-148 with a buffer that is written and kept
RECURSIVE CollectTitlesKeeping(_, _)
CollectTitlesKeeping(st, titles) ==
    IF titles = <<>> THEN st
    ELSE LET b == Append(st.current_batch, Head(titles))
         IN  IF Len(b) >= TitleBatchSize
             THEN CollectTitlesKeeping([current_batch |-> b,
                                        batch_number |-> st.batch_number + 1,
                                        dir |-> WriteFile(st.dir, st.batch_number, b)],
                                       Tail(titles))
             ELSE CollectTitlesKeeping([st EXCEPT !.current_batch = b], Tail(titles))

\* lines 139-148: the titles of a response go to the buffer one by one, and
\* a buffer that has reached the threshold is written and emptied
RECURSIVE CollectTitles(_, _)
CollectTitles(st, titles) ==
    IF titles = <<>> THEN st
    ELSE LET b == Append(st.current_batch, Head(titles))
         IN  IF Len(b) >= TitleBatchSize
             THEN CollectTitles([current_batch |-> <<>>,
                                 batch_number |-> st.batch_number + 1,
                                 dir |-> WriteFile(st.dir, st.batch_number, b)],
                                Tail(titles))
             ELSE CollectTitles([st EXCEPT !.current_batch = b], Tail(titles))

\* the next n titles of the listing
ListingTitles(n) == [i \in 1..n |-> total_collected + i]

\* lines 125-157: one response of the listing.  It has the key 'query' with
\* up to MaxPageLen titles, or lacks it; it has a continuation token or not,
\* and the response number MaxTitlePages has none.
EnumPage ==
    /\ epc = "page"
    /\ \E n \in (-1)..MaxPageLen, more \in BOOLEAN :
          /\ more => continue_token + 1 < MaxTitlePages
          /\ LET titles == IF n < 0 THEN <<>> ELSE ListingTitles(n)
                 st == CollectTitles([current_batch |-> current_batch,
                                      batch_number |-> batch_number,
                                      dir |-> titleDir], titles)
             IN  /\ allpages' = Append(allpages, [query |-> n >= 0, titles |-> titles,
                                                  continue |-> more])
                 /\ current_batch' = st.current_batch
                 /\ batch_number' = st.batch_number
                 /\ titleDir' = st.dir
                 /\ total_collected' = total_collected + Len(titles)
          /\ IF more
             THEN /\ continue_token' = continue_token + 1
                  /\ epc' = "page"
             ELSE /\ continue_token' = continue_token
                  /\ epc' = "rest"
    /\ UNCHANGED <<crawlOnly, catVars, total_articles>>

\* lines 159-164: the titles left in the buffer
EnumRest ==
    /\ epc = "rest"
    /\ titleDir' = IF current_batch # <<>>
                   THEN WriteFile(titleDir, batch_number, current_batch)
                   ELSE titleDir
    /\ epc' = "done"
    /\ UNCHANGED <<crawlOnly, catVars, allpages, total_articles, current_batch,
                   batch_number, total_collected, continue_token>>

NextEnum == EnumStart \/ EnumPage \/ EnumRest

\* the enumeration; the one thread that runs it takes every step it can
SpecTitles == InitTitles /\ [][NextEnum]_vars /\ WF_vars(NextEnum)

(***************************************************************************)
(* The crawl specifications.                                               *)
(***************************************************************************)
NextPar ==
    \/ ParResume \/ ParLoad \/ ParSkip \/ ParSplit \/ ParSubmit
    \/ Start \/ Fetch \/ Finish \/ ParEnter \/ Take \/ ParWrite \/ ParWriteFail \/ ParDone
    \/ Kill \/ KillInWrite

NextSeq ==
    \/ SeqResume \/ SeqReadFile \/ SeqDone \/ SeqNextFile \/ SeqSkipBatch
    \/ SeqBeginBatch \/ SeqFetch \/ SeqEndBatch \/ SeqSave
    \/ Kill \/ KillInWrite

\* sequential runs, and the resume lookup of a parallel run
NextMany == NextSeq \/ ParResume

Next ==
    \/ ParResume \/ ParLoad \/ ParSkip \/ ParSplit \/ ParSubmit
    \/ Start \/ Fetch \/ Finish \/ ParEnter \/ Take \/ ParWrite \/ ParWriteFail \/ ParDone
    \/ SeqResume \/ SeqReadFile \/ SeqDone \/ SeqNextFile \/ SeqSkipBatch
    \/ SeqBeginBatch \/ SeqFetch \/ SeqEndBatch \/ SeqSave
    \/ Kill \/ KillInWrite

\* a run of either driver that finds no output file and is not killed
NextRuns ==
    \/ ParResume \/ ParLoad \/ ParSkip \/ ParSplit \/ ParSubmit
    \/ Start \/ Fetch \/ Finish \/ Raise
    \/ ParEnter \/ Take \/ ParWrite \/ ParWriteFail \/ ParDone
    \/ SeqResume \/ SeqReadFile \/ SeqDone \/ SeqNextFile
    \/ SeqBeginBatch \/ SeqFetch \/ SeqEndBatch \/ SeqSave

\* runs of either driver that may be killed, also inside a write, which
\* leaves a file that is short or cannot be parsed
NextResume ==
    \/ ParResume \/ ParLoad \/ ParSkip \/ ParSplit \/ ParSubmit
    \/ Start \/ Fetch \/ Finish \/ ParEnter \/ Take \/ ParWrite \/ ParDone
    \/ SeqResume \/ SeqReadFile \/ SeqDone \/ SeqNextFile \/ SeqSkipBatch
    \/ SeqBeginBatch \/ SeqFetch \/ SeqEndBatch \/ SeqSave
    \/ Kill \/ KillInWrite \/ KillGarbled

SpecResume == InitResume /\ [][NextResume]_vars

\* a run of either driver that finds no output file, with title files that
\* cannot be read and no other failure
NextCorrupt ==
    \/ ParResume \/ ParLoad \/ ParLoadFail \/ ParSkip \/ ParSplit \/ ParSubmit
    \/ Start \/ Fetch \/ Finish \/ ParEnter \/ Take \/ ParWrite \/ ParDone
    \/ SeqResume \/ SeqReadFile \/ SeqReadFail \/ SeqDone \/ SeqNextFile
    \/ SeqBeginBatch \/ SeqFetch \/ SeqEndBatch \/ SeqSave

SpecCorrupt == InitCorrupt /\ [][NextCorrupt]_vars

\* one run of either driver with fetches that raise
SpecFaults == InitFaults /\ [][NextRuns]_vars

\* runs of the parallel driver that end by themselves
NextRenamed ==
    \/ ParResume \/ ParLoad \/ ParSkip \/ ParSplit \/ ParSubmit
    \/ Start \/ Fetch \/ Finish \/ ParEnter \/ Take \/ ParWrite \/ ParDone

SpecRenamed == InitRenamed /\ [][NextRenamed]_vars

\* runs of the sequential driver, killed or not
SpecSkip == InitSkip /\ [][NextSeq]_vars

\* runs of either driver, in any sequence
Spec == Init /\ [][Next]_vars

\* runs of the parallel driver only
SpecPar == InitPar /\ [][NextPar]_vars

\* runs of either driver over every page of the table
SpecPages == InitPages /\ [][Next]_vars

\* the split of a title list into batches, in either driver
NextPartition == ParSplit \/ SeqReadFile

SpecPartition == InitPartition /\ [][NextPartition]_vars

\* sequential runs that fill the output directory with many files
SpecMany == InitMany /\ [][NextMany]_vars

(***************************************************************************)
(* Properties.                                                             *)
(***************************************************************************)
TitlesOf(records) == {records[i].title : i \in 1..Len(records)}

\* the titles recorded in some output file
Recorded == UNION {TitlesOf(outFiles[n]) : n \in DOMAIN outFiles}

\* the sorted title sequence of the title directory and its chunks
SortedAll == SortTitles(Concat(titleFiles))

Chunks == Batches(SortedAll, batch_size)

\* the titles of a list of batches
Scheduled(bs) == UNION {Elems(bs[k]) : k \in DOMAIN bs}

\* the position of x in a sequence without repetition
Pos(seq, x) == CHOOSE i \in 1..Len(seq) : seq[i] = x

\* every future of the parallel run was collected, and no write failed
AllCollected ==
    /\ pc = "par_collect"
    /\ \A k \in DOMAIN work : work[k].st = "collected"

\* C1: no title is recorded in more than one output file, over any
\* sequence of parallel runs on the same title files and output directory
C1_RecordedOnce ==
    \A m, n \in DOMAIN outFiles :
        m # n => TitlesOf(outFiles[m]) \cap TitlesOf(outFiles[n]) = {}

\* C2: when the resume title lies in chunk C of the sorted title sequence,
\* the resumed run schedules no title of C and starts with the first title
\* of the chunk after C (parallel driver: the batches it submits;
\* sequential driver: the batch it processes)
C2_BatchGranularResume ==
    (last_title # NoTitle /\ last_title \in Elems(SortedAll)) =>
        LET c == CHOOSE k \in DOMAIN Chunks : last_title \in Elems(Chunks[k])
        IN  /\ pc = "par_submit" =>
                /\ Scheduled(batches) \cap Elems(Chunks[c]) = {}
                /\ c < Len(Chunks) =>
                      /\ batches # <<>>
                      /\ batches[1][1] = Chunks[c + 1][1]
            /\ pc = "seq_title" => Elems(batches[bi]) \cap Elems(Chunks[c]) = {}

\* every output file holds at least one record
AllNonEmpty == \A n \in DOMAIN outFiles : outFiles[n] # <<>>

\* C3: with N >= 1 non-empty output files, the resume lookup returns the
\* first title of the file written last
C3_ResumeIsLastWritten ==
    (pc \in {"par_load", "seq_file"} /\ fi <= 1 /\ lastWritten # 0 /\ AllNonEmpty) =>
        last_title = outFiles[lastWritten][1].title

\* the page of the title passes the length filter of the crawl
Passes(t) == ScrapeInto(<<>>, t) # <<>>

\* C4: at the start of a parallel run every title below the resume title
\* was fetched by an earlier run and, if it passed the length filter, is
\* recorded in an output file
C4_CursorInvariant ==
    (pc = "par_load" /\ last_title # NoTitle) =>
        \A t \in Elems(SortedAll) :
            t < last_title => t \in fetched /\ (Passes(t) => t \in Recorded)

\* the numbering of a parallel run: the files written are k+1, k+2, ... in
\* the order written, each holds the results of its chunk, the counter is
\* the next number, and exactly the collected chunks with results are written
ConsecutiveNumbers ==
    InPool =>
        /\ \A i \in 1..Len(written) :
              /\ written[i].num = Len(existing_files) + i
              /\ written[i].num \in DOMAIN outFiles
              /\ outFiles[written[i].num] = work[written[i].chunk].results
        /\ next_file_num = Len(existing_files) + Len(written) + 1
        /\ \A k \in DOMAIN work :
              work[k].st = "collected" =>
                  (work[k].results # <<>> <=> \E i \in 1..Len(written) : written[i].chunk = k)

C6_WriteOnce ==
    [][\A n \in DOMAIN outFiles :
          n \in DOMAIN outFiles' /\ outFiles'[n] = outFiles[n]]_vars

\* scrape_batch as a function of the chunk
RECURSIVE ScrapeChunk(_, _)
ScrapeChunk(titles, n) ==
    IF n = 0 THEN <<>> ELSE ScrapeInto(ScrapeChunk(titles, n - 1), titles[n])

\* C7: whatever the worker count and the interleaving, a completed parallel
\* run has written, up to the file numbers, exactly the non-empty results
\* of its chunks
C7_WorkerCountIndependent ==
    AllCollected =>
        LET want == {k \in DOMAIN batches : ScrapeChunk(batches[k], Len(batches[k])) # <<>>}
        IN  /\ Len(written) = Cardinality(want)
            /\ \A k \in want :
                  \E i \in 1..Len(written) :
                      /\ written[i].chunk = k
                      /\ outFiles[written[i].num] = ScrapeChunk(batches[k], Len(batches[k]))

\* a run of more than one worker completed two chunks with results, the
\* second chunk finishing before the first
C7_Witness ==
    /\ AllCollected
    /\ max_workers > 1
    /\ Len(written) = 2
    /\ doneOrder[1] > doneOrder[2]

\* C8: a fetched page is recorded if and only if its cleaned text has at
\* least 100 characters: every record has a cleaned text that long, and a
\* completed parallel run has recorded every such page of its batches
C8_LengthThreshold ==
    /\ \A n \in DOMAIN outFiles :
          \A i \in 1..Len(outFiles[n]) : Len(outFiles[n][i].text) >= MinLen
    /\ AllCollected =>
          \A t \in Scheduled(batches) :
              (source[t] # 0 /\ Len(clean_text(PageText(t))) >= MinLen) => t \in Recorded

\* the batches are consecutive slices of the titles: none is empty, all but
\* the last have `size` titles, and together they are the titles in order
IsPartition(bs, titles, size) ==
    /\ Concat(bs) = titles
    /\ \A k \in 1..Len(bs) :
          /\ Len(bs[k]) >= 1
          /\ Len(bs[k]) <= size
          /\ k < Len(bs) => Len(bs[k]) = size

\* C9: the batches a driver builds partition the title sequence it splits
C9_PartitionLaw ==
    /\ pc = "par_submit" => IsPartition(batches, all_titles, batch_size)
    /\ pc = "seq_batch" => IsPartition(batches, SortTitles(titleFiles[fi]), batch_size)

\* a title list was split into full batches and a shorter last one
C9_Witness ==
    /\ pc = "par_submit"
    /\ Len(batches) >= 2
    /\ Len(batches[Len(batches)]) < batch_size

\* C10: on every category graph the recursive crawl ends, and no category
\* is scraped more than once
C10_CycleSafe ==
    /\ <>(cpc = "done")
    /\ [](cpc # "off" => \A c \in Cats : scraped[c] <= 1)

\* the crawl of a cycle (the root lists a subcategory that lists the root)
\* has ended with both categories scraped
C10_Witness ==
    /\ cpc = "done"
    /\ \E c \in Cats \ {root} :
          /\ c \in subcats[root]
          /\ root \in subcats[c]
          /\ scraped[c] = 1
          /\ scraped[root] = 1

\* the records a driver keeps of the titles: of each title whose fetch
\* returns a page longer than the threshold, in the order of the titles
RECURSIVE KeptOf(_)
KeptOf(titles) ==
    IF titles = <<>> THEN <<>>
    ELSE LET t == Head(titles)
         IN  (IF ~Raises(t) /\ source[t] # 0 /\ Len(PageText(t)) > MinLen
              THEN <<[scrape_page(t) EXCEPT !.text = cleaner_clean_text(@)]>>
              ELSE <<>>) \o KeptOf(Tail(titles))

\* C11: a fetch that raises drops its title only: a chunk has fetched its
\* first pos titles once each, in order, its results are the records kept of
\* the titles that did not raise, and it returns only after its last title;
\* the same holds of the batch the sequential driver saves
C11_TitleFailureIsolated ==
    /\ InPool =>
          \A k \in DOMAIN work :
              /\ work[k].log = SubSeq(batches[k], 1, work[k].pos)
              /\ work[k].results = KeptOf(work[k].log)
              /\ (work[k].st \notin {"queued", "running"} /\ ~work[k].exc) =>
                    work[k].pos = Len(batches[k])
    /\ pc = "seq_title" => batch_data = KeptOf(SubSeq(batches[bi], 1, ti - 1))
    /\ pc = "seq_save" => batch_data = KeptOf(batches[bi])

\* the fetch of the first title of a chunk raised, and the chunk is finished
\* with the record of its second title
C11_Witness ==
    /\ InPool
    /\ \E k \in DOMAIN work :
          /\ work[k].st = "finished"
          /\ ~work[k].exc
          /\ Len(batches[k]) = 2
          /\ Raises(batches[k][1])
          /\ work[k].results # <<>>

\* the chunks of the run that were collected and written
WrittenChunks == {written[i].chunk : i \in 1..Len(written)}

\* the collector has nothing to take and no pool thread has anything to do
Quiet ==
    /\ pc = "par_collect"
    /\ snap = {}
    /\ doneQ = <<>>
    /\ \A k \in DOMAIN work : work[k].st \notin {"queued", "running"}

\* C12: a chunk whose worker raised, or whose write failed, is dropped by
\* the collector and takes no number: the counter counts the written chunks
\* only; every other chunk is collected and, with results, written to a
\* file that holds them; and the collector is never left waiting, so the
\* run returns
C12_ChunkFailureIsolated ==
    InPool =>
        /\ next_file_num = Len(existing_files) + Cardinality(WrittenChunks) + 1
        /\ \A k \in DOMAIN work :
              /\ work[k].st = "failed" => k \notin WrittenChunks
              /\ (work[k].st = "collected" /\ work[k].results # <<>>) =>
                    \E i \in 1..Len(written) :
                        /\ written[i].chunk = k
                        /\ outFiles[written[i].num] = work[k].results
        /\ Quiet => \A k \in DOMAIN work : work[k].st \in {"collected", "failed"}

\* the run is about to return: the worker of one chunk raised after it had
\* kept a record, and another chunk was written
C12_Witness ==
    /\ Quiet
    /\ \E k \in DOMAIN work :
          work[k].st = "failed" /\ work[k].exc /\ work[k].results # <<>>
    /\ written # <<>>

\* C13: a pool thread that is about to fetch the next title of its chunk
\* has slept since the fetch before it
C13_WaitBetweenFetches ==
    InPool =>
        \A k \in DOMAIN work :
            (work[k].st = "running" /\ work[k].pos < Len(batches[k])) => work[k].waited

\* C14: when the one run is over, every title of every title file that can
\* be read was fetched
C14_CorruptFileIsolated ==
    (pc = "idle" /\ runs = MaxRuns) =>
        \A i \in DOMAIN titleFiles :
            i \notin corrupt => Elems(titleFiles[i]) \subseteq fetched

\* the run found no output file, or the last listed one cannot be read or
\* has no record (no file was written since the lookup)
NoResumePoint ==
    \/ existing_files = <<>>
    \/ /\ DOMAIN outFiles = Elems(existing_files)
       /\ outFiles[existing_files[Len(existing_files)]] \in {<<>>, Unreadable}

\* C15: without a resume point the resume title is none, the parallel run
\* submits the whole sorted title sequence and the sequential run skips no
\* batch
C15_LookupFailureNotFatal ==
    /\ (pc \in {"par_load", "par_skip", "par_split", "par_submit"} /\ NoResumePoint) =>
          last_title = NoTitle
    /\ (pc = "par_submit" /\ NoResumePoint) => Concat(batches) = SortedAll
    /\ (pc = "seq_file" /\ fi = 1 /\ NoResumePoint) => last_title = NoTitle
    /\ (pc \in {"seq_file", "seq_batch", "seq_title", "seq_save"}
           /\ last_title = NoTitle) => found_last_title

\* a parallel run submits every title although the directory holds two
\* files, the last listed of which cannot be parsed
C15_Witness ==
    /\ pc = "par_submit"
    /\ Len(existing_files) = 2
    /\ outFiles[existing_files[2]] = Unreadable
    /\ Concat(batches) = SortedAll
    /\ batches # <<>>

\* the records are of titles of the batch, in the order of the batch
InBatchOrder(records, batch) ==
    /\ TitlesOf(records) \subseteq Elems(batch)
    /\ \A a, b \in 1..Len(records) :
          a < b => Pos(batch, records[a].title) < Pos(batch, records[b].title)

\* C16: a chunk fetches its titles in the order of the chunk; a file written
\* by the run holds the records kept of one chunk, all of them and in the
\* order of their titles in the chunk; and no chunk is written to two files
C16_BatchAtomicAndOrdered ==
    InPool =>
        /\ \A k \in DOMAIN work : work[k].log = SubSeq(batches[k], 1, work[k].pos)
        /\ \A i \in 1..Len(written) :
              /\ InBatchOrder(outFiles[written[i].num], batches[written[i].chunk])
              /\ outFiles[written[i].num] = KeptOf(batches[written[i].chunk])
              /\ \A j \in 1..Len(written) :
                    i # j => /\ written[i].chunk # written[j].chunk
                             /\ written[i].num # written[j].num

\* a file of two records was written for a chunk of two titles
C16_Witness ==
    /\ InPool
    /\ \E i \in 1..Len(written) :
          /\ Len(outFiles[written[i].num]) = 2
          /\ Len(batches[written[i].chunk]) = 2

\* the titles of the responses read so far, in the order of the listing
Listed == Concat([i \in 1..Len(allpages) |-> allpages[i].titles])

\* the title files 0..n-1 one after the other
RECURSIVE FilesUpTo(_)
FilesUpTo(n) == IF n = 0 THEN <<>> ELSE FilesUpTo(n - 1) \o titleDir[n - 1]

FileCount == Cardinality(DOMAIN titleDir)

\* the title files are numbered from 0 without a gap, none is empty, and
\* all but the last hold exactly the threshold
TitleFilesLaw ==
    /\ DOMAIN titleDir = 0..(FileCount - 1)
    /\ \A n \in DOMAIN titleDir :
          /\ titleDir[n] # <<>>
          /\ Len(titleDir[n]) <= TitleBatchSize
          /\ n < FileCount - 1 => Len(titleDir[n]) = TitleBatchSize

C17_AtEnd ==
    epc = "done" =>
        /\ allpages # <<>>
        /\ \A i \in 1..Len(allpages) : allpages[i].continue <=> i < Len(allpages)
        /\ TitleFilesLaw
        /\ FilesUpTo(FileCount) = Listed

OnPath ==
    \A i \in 1..Len(stack) :
        /\ stack[i].depth = max_depth - (i - 1)
        /\ stack[i].depth >= 0
        /\ i = 1 => stack[i].name = root
        /\ i > 1 => stack[i].name \in subcats[stack[i - 1].name]

\* the step scrapes the category c
Scrapes(c) == scraped'[c] > scraped[c]

\* C18: a category is scraped by a call at most max_depth steps below the
\* root on the path of calls that reached it, and only while the article
\* count is below max_articles; the count never decreases
C18_RecursionGuards ==
    /\ [](cpc \in {"start", "run", "done"} => OnPath)
    /\ [][/\ article_count' >= article_count
          /\ \A c \in Cats : Scrapes(c) =>
                /\ article_count < max_articles
                /\ stack' # <<>>
                /\ stack'[Len(stack')].name = c
                /\ Len(stack') - 1 <= max_depth]_vars

\* the crawl has ended with the count at the ceiling, and a subcategory of
\* the root, within the depth budget, was never scraped
C18_Witness ==
    /\ cpc = "done"
    /\ max_depth >= 1
    /\ article_count >= max_articles
    /\ scraped[root] = 1
    /\ \E c \in subcats[root] \ {root} : scraped[c] = 0

\* the run has a resume title, and it is none of the titles
NoMatch == last_title # NoTitle /\ last_title \notin Elems(SortedAll)

\* C19: a parallel run whose resume title is none of the titles schedules
\* all titles, from the first; its counter starts behind the number of
\* files found, and it writes behind the files found
C19_UnknownResumeTitleRestarts ==
    NoMatch =>
        /\ pc = "par_split" => all_titles = SortedAll
        /\ pc = "par_submit" => batches = Batches(SortedAll, batch_size)
        /\ InPool =>
              /\ batches = Batches(SortedAll, batch_size)
              /\ DOMAIN work = 1..Len(batches)
              /\ written = <<>> => next_file_num = Len(existing_files) + 1
              /\ \A i \in 1..Len(written) :
                    /\ written[i].num = Len(existing_files) + i
                    /\ written[i].num \notin Elems(existing_files)

\* a rerun found files whose last title is none of the titles, and has
\* written its first file behind them
C19_Witness ==
    /\ InPool
    /\ NoMatch
    /\ existing_files # <<>>
    /\ written # <<>>
    /\ written[1].num = Len(existing_files) + 1

\* the batches of the title file f (lines 272-279)
FileBatches(f) == Batches(SortTitles(titleFiles[f]), batch_size)

\* a batch before batch b of title file f holds the resume title
FoundBefore(f, b) ==
    \E g \in 1..f : \E c \in 1..Len(FileBatches(g)) :
        /\ g < f \/ c < b
        /\ last_title \in Elems(FileBatches(g)[c])

InSeqRun == pc \in {"seq_file", "seq_batch", "seq_title", "seq_save"}

\* the step begins to process the batch bi of the title file fi
Begins == pc = "seq_batch" /\ pc' = "seq_title"

\* the step skips the batch bi of the title file fi
Skips == pc = "seq_batch" /\ pc' = "seq_batch" /\ bi' = bi + 1

\* C20: the sequential driver processes a batch only without resume title or
\* after a batch that holds it, and skips a batch only before; the flag
\* stays set to the end of the run; with a resume title that is in no title
\* file the run fetches nothing and writes nothing
C20_SkipFlag ==
    [][/\ Begins => last_title = NoTitle \/ FoundBefore(fi, bi)
       /\ Skips => last_title # NoTitle /\ ~FoundBefore(fi, bi)
       /\ (InSeqRun /\ found_last_title) => (found_last_title' \/ pc' = "idle")
       /\ (InSeqRun /\ NoMatch) =>
             /\ fetched' = fetched
             /\ outFiles' = outFiles
             /\ pc' \notin {"seq_title", "seq_save"}]_vars

\* a rerun has skipped the batch that holds the resume title and fetches
\* the titles of a later batch
C20_Witness ==
    /\ pc = "seq_title"
    /\ last_title # NoTitle
    /\ FoundBefore(fi, bi)
    /\ ti > 1

=============================================================================
